---------------------------- MODULE Spec2Model ----------------------------
(***************************************************************************)
(* Model of the CNC quoting pipeline of src/src/main.py                    *)
(* (class CADQuotingEngine).  Every method of the engine is an operator    *)
(* of the same name; the engine object is the state variable `engine`,    *)
(* the mesh is a record of the values the code queries from trimesh.      *)
(*                                                                         *)
(* Arithmetic.  The code computes with Python floats.  The model computes *)
(* with exact rationals (numerator and denominator are unbounded naturals *)
(* held as sequences of base-10000 limbs), so that no product overflows   *)
(* and no quotient is truncated; binary rounding of IEEE doubles is the   *)
(* one thing abstracted away.                                              *)
(***************************************************************************)
EXTENDS Integers, Sequences, FiniteSets

(***************************************************************************)
(* Unbounded naturals: little-endian sequences of limbs, no leading zero   *)
(* limb, zero is the empty sequence.                                       *)
(***************************************************************************)
\* the limb base: any base whose square fits a machine integer
Base == 100 * 100

RECURSIVE NOfInt(_)
NOfInt(i) == IF i = 0 THEN << >> ELSE <<i % Base>> \o NOfInt(i \div Base)

RECURSIVE NAddC(_, _, _)
NAddC(a, b, c) ==
  IF a = << >> /\ b = << >> THEN (IF c = 0 THEN << >> ELSE <<c>>)
  ELSE LET x == IF a = << >> THEN 0 ELSE Head(a)
           y == IF b = << >> THEN 0 ELSE Head(b)
           s == x + y + c
       IN  <<s % Base>> \o NAddC(IF a = << >> THEN a ELSE Tail(a),
                                 IF b = << >> THEN b ELSE Tail(b), s \div Base)

NAdd(a, b) == NAddC(a, b, 0)

RECURSIVE NStrip(_)
NStrip(a) ==
  IF a = << >> THEN a
  ELSE IF a[Len(a)] = 0 THEN NStrip(SubSeq(a, 1, Len(a) - 1)) ELSE a

\* a - b for a >= b, limb by limb with borrow c
RECURSIVE NSubC(_, _, _)
NSubC(a, b, c) ==
  IF a = << >> THEN << >>
  ELSE LET y == IF b = << >> THEN 0 ELSE Head(b)
           s == Head(a) - y - c
       IN  <<IF s < 0 THEN s + Base ELSE s>>
           \o NSubC(Tail(a), IF b = << >> THEN b ELSE Tail(b), IF s < 0 THEN 1 ELSE 0)

NSub(a, b) == NStrip(NSubC(a, b, 0))

RECURSIVE NMulS(_, _, _)
NMulS(a, k, c) ==
  IF a = << >> THEN NOfInt(c)
  ELSE LET s == Head(a) * k + c IN <<s % Base>> \o NMulS(Tail(a), k, s \div Base)

RECURSIVE NMul(_, _)
NMul(a, b) ==
  IF a = << >> \/ b = << >> THEN << >>
  ELSE NAdd(NMulS(a, Head(b), 0),
            LET r == NMul(a, Tail(b)) IN IF r = << >> THEN r ELSE <<0>> \o r)

\* -1, 0, 1 as a < b, a = b, a > b
RECURSIVE NCmpAt(_, _, _)
NCmpAt(a, b, i) ==
  IF i = 0 THEN 0
  ELSE IF a[i] < b[i] THEN -1
  ELSE IF a[i] > b[i] THEN 1
  ELSE NCmpAt(a, b, i - 1)

NCmp(a, b) ==
  IF Len(a) < Len(b) THEN -1
  ELSE IF Len(a) > Len(b) THEN 1
  ELSE NCmpAt(a, b, Len(a))

\* the largest k in lo..hi with k * d <= n (lo satisfies it)
RECURSIVE NBisect(_, _, _, _)
NBisect(n, d, lo, hi) ==
  IF lo = hi THEN lo
  ELSE LET mid == (lo + hi + 1) \div 2
       IN  IF NCmp(NMul(d, NOfInt(mid)), n) <= 0
           THEN NBisect(n, d, mid, hi) ELSE NBisect(n, d, lo, mid - 1)

RECURSIVE NQuotUpTo(_, _, _)
NQuotUpTo(n, d, hi) ==
  IF NCmp(NMul(d, NOfInt(hi)), n) > 0 THEN NBisect(n, d, 0, hi - 1)
  ELSE NQuotUpTo(n, d, 2 * hi)

\* floor(n / d) as an integer, d > 0
NQuot(n, d) == NQuotUpTo(n, d, 1)

(***************************************************************************)
(* Exact rationals sg * n / d: sg is 1 or -1, n and d naturals, d > 0.     *)
(* Values are not reduced to lowest terms (only common factors of Base are *)
(* cancelled), so two rationals are compared with REq, never with =.       *)
(***************************************************************************)
RZero == [sg |-> 1, n |-> << >>, d |-> <<1>>]

RECURSIVE RNorm(_)
RNorm(x) ==
  IF x.n = << >> THEN RZero
  ELSE IF Head(x.n) = 0 /\ Head(x.d) = 0
       THEN RNorm([sg |-> x.sg, n |-> Tail(x.n), d |-> Tail(x.d)])
       ELSE x

Abs(i) == IF i < 0 THEN -i ELSE i

\* a / b for integers a and b, b > 0
Frac(a, b) == RNorm([sg |-> IF a < 0 THEN -1 ELSE 1, n |-> NOfInt(Abs(a)), d |-> NOfInt(b)])

R(i) == Frac(i, 1)

RNeg(x) == IF x.n = << >> THEN x ELSE [x EXCEPT !.sg = -x.sg]

RAbs(x) == [x EXCEPT !.sg = 1]

RMul(x, y) == RNorm([sg |-> x.sg * y.sg, n |-> NMul(x.n, y.n), d |-> NMul(x.d, y.d)])

\* x / y for y # 0
RDiv(x, y) == RNorm([sg |-> x.sg * y.sg, n |-> NMul(x.n, y.d), d |-> NMul(x.d, y.n)])

\* sx * a / d + sy * b / d
RAddN(sx, a, sy, b, d) ==
  IF sx = sy THEN RNorm([sg |-> sx, n |-> NAdd(a, b), d |-> d])
  ELSE IF NCmp(a, b) = 0 THEN RZero
  ELSE IF NCmp(a, b) > 0 THEN RNorm([sg |-> sx, n |-> NSub(a, b), d |-> d])
  ELSE RNorm([sg |-> sy, n |-> NSub(b, a), d |-> d])

RAdd(x, y) ==
  IF x.d = y.d THEN RAddN(x.sg, x.n, y.sg, y.n, x.d)
  ELSE RAddN(x.sg, NMul(x.n, y.d), y.sg, NMul(y.n, x.d), NMul(x.d, y.d))

RSub(x, y) == RAdd(x, RNeg(y))

\* -1, 0, 1 as x < y, x = y, x > y
RCmp(x, y) ==
  IF x.sg # y.sg THEN (IF x.n = << >> /\ y.n = << >> THEN 0 ELSE IF x.sg < y.sg THEN -1 ELSE 1)
  ELSE IF x.d = y.d THEN x.sg * NCmp(x.n, y.n)
  ELSE x.sg * NCmp(NMul(x.n, y.d), NMul(y.n, x.d))

RLt(x, y) == RCmp(x, y) < 0
RLe(x, y) == RCmp(x, y) <= 0
REq(x, y) == RCmp(x, y) = 0
RMin(x, y) == IF RLt(y, x) THEN y ELSE x
RMax(x, y) == IF RLt(x, y) THEN y ELSE x

\* Python's int(x): truncation toward zero
RTrunc(x) == x.sg * NQuot(x.n, x.d)

\* the ceiling of x, given q = floor(|x|)
CeilOf(x, q) ==
  IF x.sg = 1 THEN (IF NCmp(NMul(x.d, NOfInt(q)), x.n) = 0 THEN q ELSE q + 1) ELSE -q

\* numpy's ceil(x), as an integer
RCeil(x) == CeilOf(x, NQuot(x.n, x.d))

(***************************************************************************)
(* Python built-ins used by the engine.                                    *)
(***************************************************************************)
\* Python's None where a string is expected, and where a list is expected
None == "<None>"
NoBlock == << >>

\* sorted(xs) for a list of numbers: stable insertion sort, ascending
RECURSIVE InsertSorted(_, _)
InsertSorted(x, s) ==
  IF s = << >> THEN <<x>>
  ELSE IF RLt(x, Head(s)) THEN <<x>> \o s
  ELSE <<Head(s)>> \o InsertSorted(x, Tail(s))

RECURSIVE sorted(_)
sorted(xs) ==
  IF xs = << >> THEN << >>
  ELSE InsertSorted(xs[Len(xs)], sorted(SubSeq(xs, 1, Len(xs) - 1)))

\* faulty variant: any() where the code says all()
AllLe_Any(ds, bs) ==
  \E i \in 1..(IF Len(ds) < Len(bs) THEN Len(ds) ELSE Len(bs)) : RLe(ds[i], bs[i])

\* all(d <= b for d, b in zip(ds, bs))
AllLe(ds, bs) ==
  \A i \in 1..(IF Len(ds) < Len(bs) THEN Len(ds) ELSE Len(bs)) : RLe(ds[i], bs[i])

RSeq(ints) == [i \in 1..Len(ints) |-> R(ints[i])]

(***************************************************************************)
(* CADQuotingEngine.__init__: the calibration tables of a fresh engine.    *)
(***************************************************************************)
BlockSizes ==
  << <<25, 25, 25>>, <<50, 50, 50>>, <<75, 75, 75>>,
     <<100, 100, 100>>, <<125, 125, 125>>, <<150, 125, 125>>, <<150, 150, 150>>,
     <<175, 150, 150>>, <<200, 150, 150>>, <<200, 200, 150>>, <<200, 200, 200>>,
     <<250, 200, 200>>, <<250, 250, 200>>, <<250, 250, 250>>, <<300, 250, 250>>,
     <<300, 300, 250>>, <<300, 300, 300>>,
     <<400, 300, 300>>, <<400, 400, 300>>, <<500, 400, 400>>, <<600, 500, 500>> >>

\* faulty variant: the 4-day tier carries the 5-day premium
ExpeditedOptions_FlatPremium ==
  [t \in {"5_days", "4_days", "3_days"} |->
     CASE t = "5_days" -> [multiplier |-> Frac(13, 10), max_days |-> 5, description |-> "5 business days"]
       [] t = "4_days" -> [multiplier |-> Frac(13, 10), max_days |-> 4, description |-> "4 business days"]
       [] t = "3_days" -> [multiplier |-> Frac(20, 10), max_days |-> 3, description |-> "3 business days"]]

ExpeditedOptions ==
  [t \in {"5_days", "4_days", "3_days"} |->
     CASE t = "5_days" -> [multiplier |-> Frac(13, 10), max_days |-> 5, description |-> "5 business days"]
       [] t = "4_days" -> [multiplier |-> Frac(16, 10), max_days |-> 4, description |-> "4 business days"]
       [] t = "3_days" -> [multiplier |-> Frac(20, 10), max_days |-> 3, description |-> "3 business days"]]

CADQuotingEngine ==
  [ aluminum_density      |-> Frac(27, 10),
    aluminum_price_per_kg |-> R(5),
    cnc_rate_per_hour     |-> R(100),
    block_sizes           |-> BlockSizes,
    coarse_mrr            |-> R(350),
    medium_mrr            |-> R(100),
    fine_mrr              |-> R(20),
    coarse_cost_per_mm3   |-> Frac(11, 100000),
    medium_cost_per_mm3   |-> Frac(39, 100000),
    fine_cost_per_mm3     |-> Frac(175, 100000),
    min_price_per_part    |-> R(200),
    complexity_calibration |->
      [c \in {"low", "medium", "high"} |->
         IF c = "low" THEN Frac(85, 100) ELSE IF c = "medium" THEN R(1) ELSE Frac(135, 100)],
    size_calibration |->
      [c \in {"small", "medium", "large"} |->
         IF c = "small" THEN Frac(115, 100) ELSE IF c = "medium" THEN R(1) ELSE Frac(9, 10)],
    base_machining_rate   |-> R(100),
    labor_rates |->
      [k \in {"cad_cam_programming", "machine_setup", "tool_setup",
              "quality_inspection", "deburring_finishing", "project_management"} |->
         CASE k = "cad_cam_programming" -> R(110)
           [] k = "machine_setup"       -> R(65)
           [] k = "tool_setup"          -> R(55)
           [] k = "quality_inspection"  -> R(65)
           [] k = "deburring_finishing" -> R(45)
           [] k = "project_management"  -> R(85)],
    base_setup_time       |-> Frac(4, 10),
    feature_multipliers |->
      [k \in {"holes", "pockets", "threads", "tight_tolerance"} |->
         CASE k = "holes"           -> Frac(103, 100)
           [] k = "pockets"         -> Frac(107, 100)
           [] k = "threads"         -> Frac(11, 10)
           [] k = "tight_tolerance" -> Frac(115, 100)],
    expedited_options     |-> ExpeditedOptions ]

(***************************************************************************)
(* find_smallest_fitting_block.  A candidate is the tuple                  *)
(* (block, waste_ratio, block_volume) of the code.                         *)
(***************************************************************************)
BlockVolume(block) == R(block[1] * block[2] * block[3])

FitsBlock(sorted_dimensions, block) == AllLe(sorted_dimensions, sorted(RSeq(block)))

WasteRatio(dimensions, block) ==
  LET block_volume == BlockVolume(block)
      part_volume  == RMul(RMul(dimensions[1], dimensions[2]), dimensions[3])
  IN  RDiv(RSub(block_volume, part_volume), block_volume)

\* the catalog blocks the part fits in, in catalog order (lines 206-210, 223-225)
FittingBlocks(self, dimensions) ==
  LET sorted_dimensions == sorted(dimensions)
  IN  SelectSeq(self.block_sizes, LAMBDA block : FitsBlock(sorted_dimensions, block))

\* the tuples (block, waste_ratio, block_volume) of lines 212-219
Candidates(fits, dimensions) ==
  [i \in 1..Len(fits) |->
     [block |-> fits[i],
      waste |-> WasteRatio(dimensions, fits[i]),
      volume |-> BlockVolume(fits[i])]]

\* lines 204-219: the fitting blocks with at most 70% waste, in catalog order
FittingWithinWaste(self, dimensions) ==
  SelectSeq(Candidates(FittingBlocks(self, dimensions), dimensions),
            LAMBDA c : RLe(c.waste, Frac(7, 10)))

\* lines 221-226: every fitting block, each with the placeholder waste 0.8
AnyCandidates(fits) ==
  [i \in 1..Len(fits) |->
     [block |-> fits[i], waste |-> Frac(8, 10), volume |-> BlockVolume(fits[i])]]

FittingAny(self, dimensions) == AnyCandidates(FittingBlocks(self, dimensions))

\* faulty variant: the optimal blocks are ranked by volume alone
OptimalKeyBelow_VolumeOnly(a, b) == RLt(a.volume, b.volume)

\* key=lambda x: (abs(x[1] - 0.3), x[2]), compared as Python compares tuples
OptimalKeyBelow(a, b) ==
  LET ka == RAbs(RSub(a.waste, Frac(3, 10)))
      kb == RAbs(RSub(b.waste, Frac(3, 10)))
  IN  RLt(ka, kb) \/ (REq(ka, kb) /\ RLt(a.volume, b.volume))

\* faulty variant: the fallback takes the largest block
VolumeKeyBelow_Largest(a, b) == RLt(b.volume, a.volume)

\* key=lambda x: x[2]
VolumeKeyBelow(a, b) == RLt(a.volume, b.volume)

\* min(xs, key=...): the first element of xs whose key no other element's key is
\* below; key names the lambda of the call
KeyBelow(key, a, b) ==
  IF key = "waste_then_volume" THEN OptimalKeyBelow(a, b) ELSE VolumeKeyBelow(a, b)

MinBy(xs, key) ==
  xs[CHOOSE i \in 1..Len(xs) :
       /\ \A j \in 1..(i - 1) : KeyBelow(key, xs[i], xs[j])
       /\ \A j \in (i + 1)..Len(xs) : ~KeyBelow(key, xs[j], xs[i])]

\* line 235
OptimalBlocks(fitting_blocks) ==
  SelectSeq(fitting_blocks, LAMBDA b : RLe(Frac(2, 10), b.waste) /\ RLe(b.waste, Frac(6, 10)))

\* lines 231-240
SelectBlock(fitting_blocks, optimal_blocks) ==
  IF fitting_blocks = << >> THEN NoBlock
  ELSE IF optimal_blocks # << >> THEN MinBy(optimal_blocks, "waste_then_volume").block
  ELSE MinBy(fitting_blocks, "volume").block

\* lines 234-240
SelectFrom(fitting_blocks) == SelectBlock(fitting_blocks, OptimalBlocks(fitting_blocks))

\* lines 221-240, fitting_blocks being the list after the first pass
SelectAmong(self, dimensions, fitting_blocks) ==
  IF fitting_blocks = << >> THEN SelectFrom(FittingAny(self, dimensions))
  ELSE SelectFrom(fitting_blocks)

find_smallest_fitting_block(self, dimensions) ==
  SelectAmong(self, dimensions, FittingWithinWaste(self, dimensions))

(***************************************************************************)
(* The mesh.  A mesh is the record of what the engine asks trimesh for:    *)
(*   bounds       <<min corner, max corner>>, in mm                        *)
(*   volume       mesh.volume in mm^3 (signed: the code takes abs)         *)
(*   area         mesh.area in mm^2                                        *)
(*   convex_hull  [raises |-> whether the hull query fails,                *)
(*                 volume |-> its volume in mm^3]                          *)
(*   faces, edges len(mesh.faces), len(mesh.edges)                         *)
(*   numpy_floats whether the volumes are numpy.float64 (x / 0.0 is inf or *)
(*                nan) or Python floats (x / 0.0 raises)                   *)
(***************************************************************************)
Raise(exception, message) == [kind |-> "raise", exception |-> exception, message |-> message]
Return(value) == [kind |-> "return", value |-> value]

IMax(a, b) == IF a < b THEN b ELSE a
IMin(a, b) == IF a < b THEN a ELSE b

get_bounding_box(self, mesh) ==
  LET bounds == mesh.bounds
      dimensions == [i \in 1..3 |-> bounds[2][i] - bounds[1][i]]
  IN  [length |-> R(dimensions[1]), width |-> R(dimensions[2]), height |-> R(dimensions[3]),
       x_min |-> R(bounds[1][1]), y_min |-> R(bounds[1][2]), z_min |-> R(bounds[1][3]),
       x_max |-> R(bounds[2][1]), y_max |-> R(bounds[2][2]), z_max |-> R(bounds[2][3])]

calculate_volumes(self, mesh) ==
  LET part_volume == RAbs(R(mesh.volume))
      convex_hull_volume == RAbs(R(mesh.convex_hull.volume))
      shrink_wrap_volume == RMul(convex_hull_volume, Frac(8, 10))
  IN  IF mesh.convex_hull.raises THEN Raise("QhullError", "convex hull")
      ELSE Return([part_volume |-> part_volume,
                   convex_hull_volume |-> convex_hull_volume,
                   shrink_wrap_volume |-> shrink_wrap_volume])

(***************************************************************************)
(* detect_features.  The body of the try block runs statement by           *)
(* statement; a failing query leaves the counts assigned so far and the    *)
(* handler only resets feature_score.                                      *)
(***************************************************************************)
FeatureScore(features) ==
  RAdd(RAdd(RMul(R(features.holes), Frac(8, 10)), RMul(R(features.cavities), Frac(6, 10))),
       RAdd(RMul(R(features.sharp_edges), Frac(4, 10)), RMul(R(features.pockets), Frac(5, 10))))

\* lines 259-262
DetectHoles(mesh) ==
  LET volume == RAbs(R(mesh.volume))
      surface_area == R(mesh.area)
      sa_volume_ratio == IF RLt(R(0), volume) THEN RDiv(surface_area, volume) ELSE R(0)
  IN  IF RLt(Frac(15, 100), sa_volume_ratio)
      THEN IMax(1, IMin(5, RTrunc(RMul(sa_volume_ratio, R(5)))))
      ELSE 0

\* lines 266-268; hull volume is not zero
DetectCavities(mesh) ==
  LET volume == RAbs(R(mesh.volume))
      cavity_ratio == RSub(R(1), RDiv(volume, RAbs(R(mesh.convex_hull.volume))))
  IN  IF RLt(Frac(2, 10), cavity_ratio)
      THEN IMax(1, IMin(3, RTrunc(RMul(cavity_ratio, R(3)))))
      ELSE 0

\* faulty variant: the ratio is scaled by 0.5 instead of 1.5
DetectSharpEdges_Half(mesh) ==
  LET edge_face_ratio == IF mesh.faces > 0 THEN Frac(mesh.edges, mesh.faces) ELSE R(0)
  IN  IF RLt(R(3), edge_face_ratio)
      THEN IMax(1, IMin(4, RTrunc(RMul(edge_face_ratio, Frac(5, 10)))))
      ELSE 0

\* lines 271-273
DetectSharpEdges(mesh) ==
  LET edge_face_ratio == IF mesh.faces > 0 THEN Frac(mesh.edges, mesh.faces) ELSE R(0)
  IN  IF RLt(R(3), edge_face_ratio)
      THEN IMax(1, IMin(4, RTrunc(RMul(edge_face_ratio, Frac(15, 10)))))
      ELSE 0

\* faulty variant: the pocket count of a dense mesh is not capped at 8
DetectPockets_Uncapped(mesh) ==
  LET face_count == mesh.faces
  IN  IF face_count > 2000 THEN IMax(1, RTrunc(Frac(face_count, 1000)))
      ELSE IF face_count > 1000 THEN IMax(1, IMin(4, RTrunc(Frac(face_count, 800))))
      ELSE 0

\* lines 276-280
DetectPockets(mesh) ==
  LET face_count == mesh.faces
  IN  IF face_count > 2000 THEN IMax(1, IMin(8, RTrunc(Frac(face_count, 1000))))
      ELSE IF face_count > 1000 THEN IMax(1, IMin(4, RTrunc(Frac(face_count, 800))))
      ELSE 0

detect_features(self, mesh) ==
  LET features0 == [holes |-> 0, cavities |-> 0, sharp_edges |-> 0, pockets |-> 0,
                    feature_score |-> R(0)]
      features1 == [features0 EXCEPT !.holes = DetectHoles(mesh)]
      \* mesh.convex_hull fails, or volume / 0.0 raises ZeroDivisionError
      failed == \/ mesh.convex_hull.raises
                \/ (mesh.convex_hull.volume = 0 /\ ~mesh.numpy_floats)
      \* volume / 0.0 is inf or nan with numpy floats: cavity_ratio > 0.2 is False
      features2 == IF mesh.convex_hull.volume = 0 THEN features1
                   ELSE [features1 EXCEPT !.cavities = DetectCavities(mesh)]
      features3 == [features2 EXCEPT !.sharp_edges = DetectSharpEdges(mesh)]
      features4 == [features3 EXCEPT !.pockets = DetectPockets(mesh)]
  IN  IF failed THEN [features1 EXCEPT !.feature_score = R(0)]
      ELSE [features4 EXCEPT !.feature_score = FeatureScore(features4)]

\* faulty variant: the sum of the four components is returned uncapped
calculate_complexity_score_Uncapped(self, mesh) ==
  LET features == detect_features(self, mesh)
      volume == RAbs(R(mesh.volume))
      sa_volume_ratio == IF RLt(R(0), volume) THEN RDiv(R(mesh.area), volume) ELSE R(0)
      sa_complexity == RMin(RMul(sa_volume_ratio, Frac(15, 100)), R(3))
      face_complexity == RMin(RMul(Frac(mesh.faces, 1000), R(2)), R(4))
      edge_complexity == RMin(RMul(Frac(mesh.edges, 1000), R(2)), R(3))
      feature_complexity == RMin(RMul(features.feature_score, Frac(3, 10)), R(2))
      complexity == RAdd(RAdd(RAdd(sa_complexity, face_complexity), edge_complexity),
                         feature_complexity)
  IN  complexity

\* lines 294-317
calculate_complexity_score(self, mesh) ==
  LET features == detect_features(self, mesh)
      volume == RAbs(R(mesh.volume))
      sa_volume_ratio == IF RLt(R(0), volume) THEN RDiv(R(mesh.area), volume) ELSE R(0)
      sa_complexity == RMin(RMul(sa_volume_ratio, Frac(15, 100)), R(3))
      face_complexity == RMin(RMul(Frac(mesh.faces, 1000), R(2)), R(4))
      edge_complexity == RMin(RMul(Frac(mesh.edges, 1000), R(2)), R(3))
      feature_complexity == RMin(RMul(features.feature_score, Frac(3, 10)), R(2))
      complexity == RAdd(RAdd(RAdd(sa_complexity, face_complexity), edge_complexity),
                         feature_complexity)
  IN  RMin(complexity, R(8))

\* faulty variant: a score of exactly 4.0 is still low, one of exactly 6.0 still medium
get_complexity_category_Inclusive(self, score) ==
  IF RLe(score, R(4)) THEN "low" ELSE IF RLe(score, R(6)) THEN "medium" ELSE "high"

get_complexity_category(self, score) ==
  IF RLt(score, R(4)) THEN "low" ELSE IF RLt(score, R(6)) THEN "medium" ELSE "high"

get_size_category(self, length) ==
  IF RLt(length, R(50)) THEN "small" ELSE IF RLt(length, R(200)) THEN "medium" ELSE "large"

(***************************************************************************)
(* get_quantity_multiplier: tiers are (quantity, multiplier in 1/100).     *)
(***************************************************************************)
\* faulty variant: the multiplier of 50 parts is entered as 0.79
QuantityTiers_Raised50 ==
  << <<1, 100>>, <<2, 95>>, <<3, 92>>, <<4, 90>>, <<5, 88>>, <<10, 85>>,
     <<15, 82>>, <<20, 80>>, <<25, 78>>, <<50, 79>>, <<100, 72>> >>

QuantityTiers ==
  << <<1, 100>>, <<2, 95>>, <<3, 92>>, <<4, 90>>, <<5, 88>>, <<10, 85>>,
     <<15, 82>>, <<20, 80>>, <<25, 78>>, <<50, 75>>, <<100, 72>> >>

TierMult(i) == Frac(QuantityTiers[i][2], 100)

get_quantity_multiplier(self, quantity) ==
  LET tiers == QuantityTiers
      hits == {i \in 1..(Len(tiers) - 1) : tiers[i][1] <= quantity /\ quantity <= tiers[i + 1][1]}
  IN  IF quantity < 1 THEN TierMult(1)
      ELSE IF quantity >= 5000 THEN TierMult(Len(tiers))
      ELSE IF hits # {}
      THEN LET i == CHOOSE k \in hits : \A j \in hits : k <= j
               t == Frac(quantity - tiers[i][1], tiers[i + 1][1] - tiers[i][1])
           IN  RAdd(TierMult(i), RMul(RSub(TierMult(i + 1), TierMult(i)), t))
      ELSE TierMult(1)

get_quantity_discount_percentage(self, quantity) ==
  LET multiplier == get_quantity_multiplier(self, quantity)
  IN  IF RLt(multiplier, R(1)) THEN RMul(RSub(R(1), multiplier), R(100)) ELSE R(0)

estimate_machine_time(self, volumes) ==
  LET coarse_volume == RSub(volumes.block_volume, volumes.convex_hull_volume)
      medium_volume == RSub(volumes.convex_hull_volume, volumes.shrink_wrap_volume)
      fine_volume == RSub(volumes.shrink_wrap_volume, volumes.part_volume)
      coarse_time == IF RLt(R(0), self.coarse_mrr) THEN RDiv(coarse_volume, self.coarse_mrr) ELSE R(0)
      medium_time == IF RLt(R(0), self.medium_mrr) THEN RDiv(medium_volume, self.medium_mrr) ELSE R(0)
      fine_time == IF RLt(R(0), self.fine_mrr) THEN RDiv(fine_volume, self.fine_mrr) ELSE R(0)
  IN  RAdd(RAdd(coarse_time, medium_time), fine_time)

\* lines 397-402
ComplexityFactor(complexity_score) ==
  IF RLt(complexity_score, R(3)) THEN Frac(8, 10)
  ELSE IF RLt(complexity_score, R(7)) THEN R(1)
  ELSE Frac(14, 10)

\* lines 405-417: the labor hours of each operation
LaborHours(base_setup_hours, complexity_factor, surface_area_m2, complexity_score) ==
  [cad_cam_hours |-> RMul(RMul(base_setup_hours, Frac(4, 10)), complexity_factor),
   machine_setup_hours |-> RMul(RMul(base_setup_hours, Frac(3, 10)), complexity_factor),
   tool_setup_hours |-> RMul(RMul(base_setup_hours, Frac(3, 10)), complexity_factor),
   qc_hours |-> RMul(RMax(Frac(1, 10), RMul(surface_area_m2, Frac(5, 10))), complexity_factor),
   finishing_hours |->
     RMul(RMax(Frac(1, 10), RMul(surface_area_m2, Frac(3, 10))), complexity_factor),
   project_mgmt_hours |-> RAdd(Frac(2, 10), RDiv(complexity_score, R(20)))]

\* lines 420-427: the labor_costs dictionary before the totals
LaborCosts(self, hours) ==
  [cad_cam_programming |-> RMul(hours.cad_cam_hours, self.labor_rates["cad_cam_programming"]),
   machine_setup |-> RMul(hours.machine_setup_hours, self.labor_rates["machine_setup"]),
   tool_setup |-> RMul(hours.tool_setup_hours, self.labor_rates["tool_setup"]),
   quality_inspection |-> RMul(hours.qc_hours, self.labor_rates["quality_inspection"]),
   deburring_finishing |->
     RMul(hours.finishing_hours, self.labor_rates["deburring_finishing"]),
   project_management |->
     RMul(hours.project_mgmt_hours, self.labor_rates["project_management"])]

\* faulty variant: all six categories are charged per unit
TotalLaborCost_AllPerUnit(labor_costs, quantity) ==
  RMul(RAdd(RAdd(RAdd(RAdd(RAdd(labor_costs.cad_cam_programming, labor_costs.machine_setup),
                           labor_costs.tool_setup),
                      labor_costs.quality_inspection),
                 labor_costs.deburring_finishing),
            labor_costs.project_management),
       R(quantity))

\* lines 430-440
TotalLaborCost(labor_costs, quantity) ==
  IF quantity > 1
  THEN RAdd(RAdd(RAdd(RAdd(labor_costs.cad_cam_programming, labor_costs.machine_setup),
                      labor_costs.tool_setup),
                 labor_costs.project_management),
            RMul(RAdd(labor_costs.quality_inspection, labor_costs.deburring_finishing),
                 R(quantity)))
  ELSE RAdd(RAdd(RAdd(RAdd(RAdd(labor_costs.cad_cam_programming, labor_costs.machine_setup),
                           labor_costs.tool_setup),
                      labor_costs.quality_inspection),
                 labor_costs.deburring_finishing),
            labor_costs.project_management)

\* lines 443-444
TotalHours(hours) ==
  RAdd(RAdd(RAdd(RAdd(RAdd(hours.cad_cam_hours, hours.machine_setup_hours),
                      hours.tool_setup_hours), hours.qc_hours), hours.finishing_hours),
       hours.project_mgmt_hours)

\* lines 442-446: the dictionary returned
LaborCostsWithTotals(labor_costs, hours, quantity) ==
  [cad_cam_programming |-> labor_costs.cad_cam_programming,
   machine_setup |-> labor_costs.machine_setup,
   tool_setup |-> labor_costs.tool_setup,
   quality_inspection |-> labor_costs.quality_inspection,
   deburring_finishing |-> labor_costs.deburring_finishing,
   project_management |-> labor_costs.project_management,
   total_labor_cost |-> TotalLaborCost(labor_costs, quantity),
   total_hours |-> TotalHours(hours)]

LaborCostsOfHours(self, hours, quantity) ==
  LaborCostsWithTotals(LaborCosts(self, hours), hours, quantity)

calculate_labor_costs(self, mesh, complexity_score, quantity) ==
  LaborCostsOfHours(self,
                    LaborHours(self.base_setup_time, ComplexityFactor(complexity_score),
                               RDiv(R(mesh.area), R(1000000)), complexity_score),
                    quantity)

(***************************************************************************)
(* calculate_costs, in the order of the code.                              *)
(***************************************************************************)
\* faulty variant: the minimum price is not applied
ApplyMinimumPrice_NoFloor(self, total_cost_per_unit) == total_cost_per_unit

\* lines 500-502: the minimum price per part
ApplyMinimumPrice(self, total_cost_per_unit) ==
  IF RLt(total_cost_per_unit, self.min_price_per_part) THEN self.min_price_per_part
  ELSE total_cost_per_unit

\* `if expedited and expedited in self.expedited_options`
ExpeditedRecognized(self, expedited) ==
  expedited # None /\ expedited # "" /\ expedited \in DOMAIN self.expedited_options

\* lines 504-512: [multiplier, description] of the request
ExpeditedConfig(self, expedited) ==
  IF ExpeditedRecognized(self, expedited)
  THEN [multiplier |-> self.expedited_options[expedited].multiplier,
        description |-> self.expedited_options[expedited].description]
  ELSE [multiplier |-> R(1), description |-> None]

\* lines 528-535
TotalTimeHours(machine_time_hours, setup_time_hours, finishing_time_hours, qc_time_hours, quantity) ==
  IF quantity = 1
  THEN RAdd(RAdd(RAdd(machine_time_hours, setup_time_hours), finishing_time_hours),
            qc_time_hours)
  ELSE RAdd(setup_time_hours,
            RMul(RAdd(RAdd(machine_time_hours, finishing_time_hours), qc_time_hours),
                 R(quantity)))

\* lines 538-545: work_hours_per_day 10, efficiency_factor 0.9, buffer_factor 1.1
LeadTimeOfTotal(total_time_hours) ==
  IMax(1, RCeil(RDiv(RMul(total_time_hours, Frac(11, 10)), RMul(R(10), Frac(9, 10)))))

\* lines 525-545
LeadTimeOfPart(machine_time_hours, setup_time_hours, finishing_time_hours, quantity) ==
  LeadTimeOfTotal(
    TotalTimeHours(machine_time_hours, setup_time_hours, finishing_time_hours,
                   RMul(RAdd(RAdd(machine_time_hours, setup_time_hours), finishing_time_hours),
                        Frac(3, 100)),
                   quantity))

\* lines 519-545
LeadTimeOfMachining(self, machine_time_hours, quantity) ==
  LeadTimeOfPart(machine_time_hours, RMul(self.base_setup_time, Frac(5, 10)),
                 RMul(machine_time_hours, Frac(5, 100)), quantity)

\* lines 514-545: the lead time computed from the milling volumes
VolumetricLeadTime(self, volumes, quantity) ==
  LeadTimeOfMachining(self, RDiv(estimate_machine_time(self, volumes), R(3600)), quantity)

\* lines 547-553
StandardLeadTime(complexity_score) ==
  IF RLt(complexity_score, R(5)) THEN 7
  ELSE IF RLt(complexity_score, R(8)) THEN 10
  ELSE 11

\* faulty variant: the volumetric lead time is kept (the assignment of line 556 is missing)
LeadTimeDays_Volumetric(self, volumetric_lead_time, standard_lead_time, expedited) ==
  IF ExpeditedRecognized(self, expedited)
  THEN (IF expedited = "3_days" THEN 3 ELSE IF expedited = "4_days" THEN 4 ELSE 5)
  ELSE volumetric_lead_time

\* lines 545-567: the assignments to lead_time_days, in order
LeadTimeDays(self, volumetric_lead_time, standard_lead_time, expedited) ==
  LET lead_time_days0 == volumetric_lead_time
      lead_time_days1 == standard_lead_time
  IN  IF ExpeditedRecognized(self, expedited)
      THEN IF expedited = "3_days" THEN 3
           ELSE IF expedited = "4_days" THEN 4
           ELSE IF expedited = "5_days" THEN 5
           ELSE lead_time_days1
      ELSE lead_time_days1

\* faulty variant: the composite cost leaves the material cost out
CompositeCost_NoMaterial(machine_time_cost, material_cost, total_labor_cost, quantity_multiplier) ==
  RMul(RAdd(machine_time_cost, total_labor_cost), quantity_multiplier)

\* lines 496-498: the composite cost before the minimum price
CompositeCost(machine_time_cost, material_cost, total_labor_cost, quantity_multiplier) ==
  RMul(RAdd(RAdd(machine_time_cost, material_cost), total_labor_cost), quantity_multiplier)

\* faulty variant: the total forgets the quantity
TotalCost_PerUnit(total_cost_per_unit, quantity) == total_cost_per_unit

\* line 574
TotalCost(total_cost_per_unit, quantity) == RMul(total_cost_per_unit, R(quantity))

\* lines 462-463: volumes["block_volume"] = block_volume
VolumesWithBlock(volumes, best_block) ==
  [part_volume |-> volumes.part_volume,
   convex_hull_volume |-> volumes.convex_hull_volume,
   shrink_wrap_volume |-> volumes.shrink_wrap_volume,
   block_volume |-> R(best_block[1] * best_block[2] * best_block[3])]

\* faulty variant: the phase volumes are plain differences, not clamped at 0
MillingVolumes_Unclamped(volumes) ==
  [coarse_volume |-> RSub(volumes.block_volume, volumes.convex_hull_volume),
   medium_volume |-> RSub(volumes.convex_hull_volume, volumes.shrink_wrap_volume),
   fine_volume |-> RSub(volumes.shrink_wrap_volume, volumes.part_volume)]

\* lines 466-468
MillingVolumes(volumes) ==
  [coarse_volume |-> RMax(R(0), RSub(volumes.block_volume, volumes.convex_hull_volume)),
   medium_volume |-> RMax(R(0), RSub(volumes.convex_hull_volume, volumes.shrink_wrap_volume)),
   fine_volume |-> RMax(R(0), RSub(volumes.shrink_wrap_volume, volumes.part_volume))]

\* lines 471-473
MillingCosts(self, milling) ==
  [coarse_cost |-> RMul(milling.coarse_volume, self.coarse_cost_per_mm3),
   medium_cost |-> RMul(milling.medium_volume, self.medium_cost_per_mm3),
   fine_cost |-> RMul(milling.fine_volume, self.fine_cost_per_mm3)]

\* faulty variant: the material of the whole block is charged
MaterialCost_OfBlock(self, volumes) ==
  RMul(RDiv(RMul(RDiv(volumes.block_volume, R(1000)), self.aluminum_density), R(1000)),
       self.aluminum_price_per_kg)

\* lines 478-480
MaterialCost(self, volumes) ==
  RMul(RDiv(RMul(RDiv(volumes.part_volume, R(1000)), self.aluminum_density), R(1000)),
       self.aluminum_price_per_kg)

\* lines 487, 491, 497
Multipliers(self, bounding_box, complexity_score, quantity) ==
  [complexity_multiplier |->
     self.complexity_calibration[get_complexity_category(self, complexity_score)],
   size_multiplier |-> self.size_calibration[get_size_category(self, bounding_box.length)],
   quantity_multiplier |-> get_quantity_multiplier(self, quantity)]

\* lines 475, 488, 492
MachineTimeCost(costs, multipliers) ==
  RMul(RMul(RAdd(RAdd(costs.coarse_cost, costs.medium_cost), costs.fine_cost),
            multipliers.complexity_multiplier),
       multipliers.size_multiplier)

\* faulty variant: any non-empty tier string outside the table is charged the 5-day premium
ExpeditedPrice_AnyTier(self, expedited, total_cost_per_unit) ==
  IF ExpeditedRecognized(self, expedited)
  THEN RMul(total_cost_per_unit, ExpeditedConfig(self, expedited).multiplier)
  ELSE IF expedited # None /\ expedited # "" THEN RMul(total_cost_per_unit, Frac(13, 10))
  ELSE total_cost_per_unit

\* line 512
ExpeditedPrice(self, expedited, total_cost_per_unit) ==
  IF ExpeditedRecognized(self, expedited)
  THEN RMul(total_cost_per_unit, ExpeditedConfig(self, expedited).multiplier)
  ELSE total_cost_per_unit

\* lines 496-512: total_cost_per_unit after the quantity multiplier, the minimum price
\* and the expedite multiplier
PerUnitCost(self, expedited, machine_time_cost, material_cost, total_labor_cost, quantity_multiplier) ==
  ExpeditedPrice(self, expedited,
    ApplyMinimumPrice(self,
      CompositeCost(machine_time_cost, material_cost, total_labor_cost, quantity_multiplier)))

\* lines 568-599: part is the record of the arguments and measurements of the call
QuoteResult(part, milling, costs, material_cost, labor_costs, multipliers, machine_time_cost, expedited_config, total_cost_per_unit, lead_time_days) ==
  [per_unit_cost |-> total_cost_per_unit,
   lead_time_days |-> lead_time_days,
   material_cost |-> material_cost,
   machine_time_cost |-> machine_time_cost,
   total_cost |-> TotalCost(total_cost_per_unit, part.quantity),
   bounding_box |-> part.bounding_box,
   volume |-> part.volumes.part_volume,
   surface_area |-> R(part.mesh.area),
   complexity_score |-> part.complexity_score,
   breakdown |->
     [coarse_milling_cost |-> costs.coarse_cost,
      medium_milling_cost |-> costs.medium_cost,
      fine_milling_cost |-> costs.fine_cost,
      material_cost |-> material_cost,
      labor_costs |-> labor_costs,
      total_labor_cost |-> labor_costs.total_labor_cost,
      complexity_multiplier |-> multipliers.complexity_multiplier,
      size_multiplier |-> multipliers.size_multiplier,
      quantity_multiplier |-> multipliers.quantity_multiplier,
      block_size |-> part.best_block,
      block_volume |-> part.volumes.block_volume,
      coarse_volume |-> milling.coarse_volume,
      medium_volume |-> milling.medium_volume,
      fine_volume |-> milling.fine_volume,
      expedited_multiplier |-> expedited_config.multiplier,
      expedited_description |-> expedited_config.description],
   expedited |-> (part.expedited # None),
   expedited_multiplier |-> expedited_config.multiplier]

\* lines 496-599, once machine_time_cost has received both multipliers
QuoteOfMachineTimeCost(self, part, milling, costs, material_cost, labor_costs, multipliers, machine_time_cost) ==
  QuoteResult(part, milling, costs, material_cost, labor_costs, multipliers, machine_time_cost,
              ExpeditedConfig(self, part.expedited),
              PerUnitCost(self, part.expedited, machine_time_cost, material_cost,
                          labor_costs.total_labor_cost, multipliers.quantity_multiplier),
              LeadTimeDays(self, VolumetricLeadTime(self, part.volumes, part.quantity),
                           StandardLeadTime(part.complexity_score), part.expedited))

\* lines 475-599
QuoteOfCosts(self, part, milling, costs, material_cost, labor_costs, multipliers) ==
  QuoteOfMachineTimeCost(self, part, milling, costs, material_cost, labor_costs, multipliers,
                         MachineTimeCost(costs, multipliers))

\* lines 470-599
QuoteOfMilling(self, part, milling) ==
  QuoteOfCosts(self, part, milling, MillingCosts(self, milling),
               MaterialCost(self, part.volumes),
               calculate_labor_costs(self, part.mesh, part.complexity_score, part.quantity),
               Multipliers(self, part.bounding_box, part.complexity_score, part.quantity))

\* lines 465-599
QuoteOfPart(self, part) == QuoteOfMilling(self, part, MillingVolumes(part.volumes))

\* lines 462-599, once a block is chosen
QuoteWithBlock(self, mesh, quantity, expedited, bounding_box, volumes, complexity_score, best_block) ==
  QuoteOfPart(self, [mesh |-> mesh, quantity |-> quantity, expedited |-> expedited,
                     bounding_box |-> bounding_box,
                     volumes |-> VolumesWithBlock(volumes, best_block),
                     complexity_score |-> complexity_score, best_block |-> best_block])

\* lines 455-599
CostsWithBlock(self, mesh, quantity, expedited, bounding_box, volumes, complexity_score, best_block) ==
  IF best_block = NoBlock
  THEN Raise("ValueError", "Part is too large for available block sizes")
  ELSE Return(QuoteWithBlock(self, mesh, quantity, expedited, bounding_box, volumes,
                             complexity_score, best_block))

\* lines 452-599: a failure of calculate_volumes leaves calculate_costs at line 452
CostsOfMeasurements(self, mesh, quantity, expedited, bounding_box, volumes, complexity_score) ==
  IF volumes.kind = "raise" THEN volumes
  ELSE CostsWithBlock(self, mesh, quantity, expedited, bounding_box, volumes.value,
                      complexity_score,
                      find_smallest_fitting_block(self,
                        <<bounding_box.length, bounding_box.width, bounding_box.height>>))

\* the outcome of calculate_costs: Return(QuoteResult) or Raise(...)
calculate_costs(self, mesh, quantity, expedited) ==
  CostsOfMeasurements(self, mesh, quantity, expedited, get_bounding_box(self, mesh),
                      calculate_volumes(self, mesh), calculate_complexity_score(self, mesh))

(***************************************************************************)
(* quote_with_visualizations.py.  A STEP file is what load_step_file makes *)
(* of it: it loads to a mesh or fails to load.  The charts are not drawn   *)
(* (generate_visualizations = False, as run_batch_analysis calls it) and   *)
(* no output file is written.                                              *)
(***************************************************************************)

\* The binding of a positional call engine.calculate_costs(*positional) to
\* calculate_costs(self, mesh, quantity=1, expedited=None, part_name=None):
\* more than four arguments raise TypeError before the body runs
CallCalculateCosts(self, positional) ==
  IF Len(positional) > 4
  THEN Raise("TypeError", "calculate_costs() takes from 2 to 5 positional arguments")
  ELSE calculate_costs(self, positional[1],
                       IF Len(positional) >= 2 THEN positional[2] ELSE 1,
                       IF Len(positional) >= 3 THEN positional[3] ELSE None)

\* the value None returned by run_quote_with_visualizations
NoQuoteData == [none |-> TRUE]

\* lines 60-78: breakdown has no machine_time_cost, labor_cost or overhead_cost
\* key and QuoteResult no material_waste_percentage, feature_counts or timestamp
QuoteDataOf(quote_result, part_name, shipping, quantity) ==
  [part_name |-> part_name,
   per_unit_cost |-> quote_result.per_unit_cost,
   total_cost |-> quote_result.total_cost,
   material_cost |-> quote_result.breakdown.material_cost,
   machine_time_cost |-> R(0),
   labor_cost |-> R(0),
   overhead_cost |-> R(0),
   bounding_box |-> quote_result.bounding_box,
   volume |-> quote_result.volume,
   surface_area |-> quote_result.surface_area,
   complexity_score |-> quote_result.complexity_score,
   lead_time_days |-> quote_result.lead_time_days,
   shipping_tier |-> shipping,
   quantity |-> quantity,
   material_waste_percentage |-> R(0),
   feature_counts |-> << >>,
   timestamp |-> "Unknown"]

\* lines 81-84
DiscountPercentage(quote_data, quantity) ==
  RMul(RDiv(RSub(RMul(quote_data.per_unit_cost, R(quantity)), quote_data.total_cost),
            RMul(quote_data.per_unit_cost, R(quantity))),
       R(100))

WithDiscount(quote_data, quantity) ==
  IF quantity > 1
  THEN [field \in DOMAIN quote_data \cup {"quantity_discount_percentage"} |->
          IF field = "quantity_discount_percentage"
          THEN DiscountPercentage(quote_data, quantity)
          ELSE quote_data[field]]
  ELSE quote_data

\* lines 47-57, 173-179: any exception of the try block is caught and None returned
QuoteDataOfOutcome(outcome, part_name, shipping, quantity) ==
  IF outcome.kind = "raise" THEN NoQuoteData
  ELSE WithDiscount(QuoteDataOf(outcome.value, part_name, shipping, quantity), quantity)

run_quote_with_visualizations(step_file, quantity, shipping) ==
  IF ~step_file.loads THEN NoQuoteData
  ELSE QuoteDataOfOutcome(
         CallCalculateCosts(CADQuotingEngine,
                            <<step_file.mesh, quantity, None, shipping, step_file.part_name>>),
         step_file.part_name, shipping, quantity)

\* lines 194-209: all_quotes
\* lines 199-204: the quote_data of each file, in the order of the files
QuotesOfFiles(step_files, quantity, shipping) ==
  [i \in DOMAIN step_files |->
     run_quote_with_visualizations(step_files[i], quantity, shipping)]

\* lines 206-207: if quote_data: all_quotes.append(quote_data)
Truthy(quote_data) == quote_data # NoQuoteData

AllQuotes(quotes) == SelectSeq(quotes, Truthy)

\* lines 194-209: all_quotes after the loop
run_batch_analysis(step_files, quantity, shipping) ==
  AllQuotes(QuotesOfFiles(step_files, quantity, shipping))

(***************************************************************************)
(* The state machine.  The engine is constructed once (Init) and a caller  *)
(* invokes one of its methods on arguments drawn from the sets below; the  *)
(* action of that method computes the outcome.                             *)
(*   engine  the CADQuotingEngine object (its calibration tables)          *)
(*   op      the method being invoked                                      *)
(*   args    its arguments                                                 *)
(*   pc      "call" before the method ran, "return" or "raise" after       *)
(*   result  what it returned, or the exception it raised                  *)
(***************************************************************************)
VARIABLES engine, op, args, pc, result
vars == <<engine, op, args, pc, result>>

\* Bounding-box edge lengths (mm) for the stock selector: a grid up to beyond
\* the largest block, and lengths at the edges of the catalog.
LenStep == 72
MaxLenSteps == 9
Lengths == {LenStep * k : k \in 1..MaxLenSteps} \cup {0, 25, 500, 600}
DimensionTriples == {<<a, b, c>> : a \in Lengths, b \in Lengths, c \in Lengths}

\* Quantities of a quote request
MaxSmallQuantity == 3
Quantities == 1..MaxSmallQuantity \cup {7, 100, 150, 5000}

\* Quantities handed to get_quantity_multiplier: below 1, every quantity up to
\* beyond the last control point, and quantities around the 5000 threshold
MaxTableQuantity == 103
MultiplierQuantities == (-2)..MaxTableQuantity \cup {4999, 5000, 5001, 100000}

\* Scores handed to get_complexity_category, in hundredths: the range of the
\* complexity score in steps of a quarter, and the scores next to 4.0 and 6.0
ScoreHundredths == {25 * k : k \in 0..32} \cup {399, 401, 599, 601}
Scores == {Frac(h, 100) : h \in ScoreHundredths}

\* The expedited argument: None, the recognized tiers, and strings that are no tier
ExpeditedArgs == {None, "", "5_days", "4_days", "3_days", "2_days"}

Mesh(dims, origin, volume, hull_volume, hull_raises, area, faces, edges, numpy_floats) ==
  [bounds |-> <<origin, <<origin[1] + dims[1], origin[2] + dims[2], origin[3] + dims[3]>> >>,
   volume |-> volume,
   area |-> area,
   convex_hull |-> [raises |-> hull_raises, volume |-> hull_volume],
   faces |-> faces,
   edges |-> edges,
   numpy_floats |-> numpy_floats]

\* Bounding boxes <<length, width, height>>: small and large parts, the same part
\* along different axes, parts at and beyond the largest block.
Shapes ==
  { <<100, 80, 20>>, <<20, 80, 100>>, <<40, 40, 40>>, <<144, 144, 144>>,
    <<210, 100, 50>>, <<50, 100, 210>>, <<300, 280, 260>>,
    <<600, 500, 500>>, <<500, 600, 500>>, <<500, 500, 501>>,
    <<510, 510, 100>>, <<601, 10, 10>>, <<10, 10, 700>> }

\* <<part volume, hull volume>> in sixteenths of the bounding-box volume
Fills == { <<15, 16>>, <<8, 16>>, <<4, 8>> }

\* <<area, faces, edges>>
Surfaces == { <<30000, 500, 1500>>, <<120000, 1200, 4800>>, <<600000, 2500, 7500>>,
              <<900, 300, 900>> }

BoxVolume(dims) == dims[1] * dims[2] * dims[3]

SolidMeshes ==
  { Mesh(d, <<0, 0, 0>>, (BoxVolume(d) \div 16) * f[1], (BoxVolume(d) \div 16) * f[2], FALSE,
         30000, 500, 1500, TRUE) : d \in Shapes, f \in Fills }
  \cup
  { Mesh(d, <<-5, 0, 10>>, (BoxVolume(d) \div 16) * 15, BoxVolume(d), FALSE,
         s[1], s[2], s[3], FALSE) : d \in {<<100, 80, 20>>, <<300, 280, 260>>}, s \in Surfaces }

\* Degenerate meshes: a flat sheet (no volume, hull of volume zero or no hull at
\* all), a mesh without faces, an inverted mesh (negative signed volume), and
\* oversized parts whose hull query fails.
DegenerateMeshes ==
  { Mesh(<<100, 80, 0>>, <<0, 0, 0>>, 0, 0, r, 16000, 2, 6, n) :
      r \in BOOLEAN, n \in BOOLEAN }
  \cup { Mesh(<<100, 80, 20>>, <<0, 0, 0>>, 0, 0, FALSE, 0, 0, 0, n) : n \in BOOLEAN }
  \cup { Mesh(<<40, 40, 40>>, <<0, 0, 0>>, 32000, 64000, TRUE, 9600, 12, 36, TRUE),
         Mesh(<<100, 80, 20>>, <<0, 0, 0>>, -150000, 160000, FALSE, 30000, 500, 1500, TRUE),
         Mesh(<<700, 80, 20>>, <<0, 0, 0>>, 0, 0, TRUE, 30000, 500, 1500, TRUE),
         Mesh(<<700, 80, 0>>, <<0, 0, 0>>, 0, 0, TRUE, 112000, 2, 6, TRUE) }

Meshes == SolidMeshes \cup DegenerateMeshes

\* Meshes for the feature estimator: a 100 x 80 x 20 part with
\*   <<part volume, hull volume>>  solid, with cavities, empty, without hull volume
\*   area                          ratios to the volume below and above 0.15
\*   <<faces, edges>>              face counts in every pocket band, edge-face
\*                                 ratios at and above 3
FeatureVolumes ==
  { <<150000, 160000>>, <<100000, 160000>>, <<64000, 160000>>, <<16000, 160000>>,
    <<0, 160000>>, <<150000, 0>> }
FeatureAreas == { 21000, 30000, 48000, 200000 }
FeatureFaces ==
  { <<0, 0>>, <<500, 1500>>, <<500, 1600>>, <<1200, 3600>>, <<1500, 4800>>,
    <<2600, 7800>>, <<9500, 28500>> }
FeatureMeshes ==
  Meshes \cup
  { Mesh(<<100, 80, 20>>, <<0, 0, 0>>, v[1], v[2], r, a, f[1], f[2], n) :
      v \in FeatureVolumes, a \in FeatureAreas, f \in FeatureFaces,
      r \in BOOLEAN, n \in BOOLEAN }

Init ==
  /\ engine = CADQuotingEngine
  /\ pc = "call"
  /\ result = None
  /\ \/ /\ op = "calculate_costs"
        /\ args \in [mesh : Meshes, quantity : Quantities, expedited : ExpeditedArgs]
     \/ /\ op = "find_smallest_fitting_block"
        /\ args \in [dimensions : DimensionTriples]
     \/ /\ op = "get_quantity_multiplier"
        /\ args \in [quantity : MultiplierQuantities]
     \/ /\ op \in {"detect_features", "calculate_complexity_score"}
        /\ args \in [mesh : FeatureMeshes]
     \/ /\ op = "get_complexity_category"
        /\ args \in [score : Scores]

\* faulty variant: every quote lengthens the setup time kept in the engine
CalculateCosts_Remembering ==
  /\ pc = "call" /\ op = "calculate_costs"
  /\ LET outcome == calculate_costs(engine, args.mesh, args.quantity, args.expedited)
     IN  /\ pc' = outcome.kind
         /\ result' = outcome
  /\ engine' = [engine EXCEPT !.base_setup_time = RAdd(@, Frac(1, 10))]
  /\ UNCHANGED <<op, args>>

CalculateCosts ==
  /\ pc = "call" /\ op = "calculate_costs"
  /\ LET outcome == calculate_costs(engine, args.mesh, args.quantity, args.expedited)
     IN  /\ pc' = outcome.kind
         /\ result' = outcome
  /\ UNCHANGED <<engine, op, args>>

FindSmallestFittingBlock ==
  /\ pc = "call" /\ op = "find_smallest_fitting_block"
  /\ result' = Return(find_smallest_fitting_block(engine, RSeq(args.dimensions)))
  /\ pc' = "return"
  /\ UNCHANGED <<engine, op, args>>

GetQuantityMultiplier ==
  /\ pc = "call" /\ op = "get_quantity_multiplier"
  /\ result' = Return(get_quantity_multiplier(engine, args.quantity))
  /\ pc' = "return"
  /\ UNCHANGED <<engine, op, args>>

DetectFeatures ==
  /\ pc = "call" /\ op = "detect_features"
  /\ result' = Return(detect_features(engine, args.mesh))
  /\ pc' = "return"
  /\ UNCHANGED <<engine, op, args>>

CalculateComplexityScore ==
  /\ pc = "call" /\ op = "calculate_complexity_score"
  /\ result' = Return(calculate_complexity_score(engine, args.mesh))
  /\ pc' = "return"
  /\ UNCHANGED <<engine, op, args>>

GetComplexityCategory ==
  /\ pc = "call" /\ op = "get_complexity_category"
  /\ result' = Return(get_complexity_category(engine, args.score))
  /\ pc' = "return"
  /\ UNCHANGED <<engine, op, args>>

Next ==
  \/ CalculateCosts
  \/ FindSmallestFittingBlock
  \/ GetQuantityMultiplier
  \/ DetectFeatures
  \/ CalculateComplexityScore
  \/ GetComplexityCategory

Spec == Init /\ [][Next]_vars

(***************************************************************************)
(* A session: one engine serves several quotes.  After the first quote of  *)
(* a request the caller may quote other parts on the same engine and then  *)
(* quote the first request again; result then holds both outcomes:         *)
(*   pc      "interleaved" after a quote for another part,                 *)
(*           "again" / "again_interleaved" after the repeated quote        *)
(*   result  [first |-> the first outcome, second |-> the repeated one]    *)
(***************************************************************************)
SessionMeshes == DegenerateMeshes \cup {m \in SolidMeshes : ~m.numpy_floats}
SessionRequests ==
  [mesh : SessionMeshes, quantity : {1, MaxSmallQuantity, 100}, expedited : {None, "4_days", "2_days"}]

\* the requests quoted in between
OtherRequests ==
  {r \in SessionRequests : r.mesh.bounds[2] = <<100, 80, 20>> /\ r.quantity = MaxSmallQuantity}

SessionInit ==
  /\ engine = CADQuotingEngine
  /\ pc = "call"
  /\ result = None
  /\ op = "calculate_costs"
  /\ args \in SessionRequests

QuoteAnotherPart ==
  /\ op = "calculate_costs" /\ pc \in {"return", "raise"}
  /\ \E other \in OtherRequests :
       /\ other # args
       /\ calculate_costs(engine, other.mesh, other.quantity, other.expedited).kind
            \in {"return", "raise"}
  /\ pc' = "interleaved"
  /\ UNCHANGED <<engine, op, args, result>>

CalculateCostsAgain ==
  /\ op = "calculate_costs" /\ pc \in {"return", "raise", "interleaved"}
  /\ result' = [first |-> result,
                second |-> calculate_costs(engine, args.mesh, args.quantity, args.expedited)]
  /\ pc' = IF pc = "interleaved" THEN "again_interleaved" ELSE "again"
  /\ UNCHANGED <<engine, op, args>>

SessionNext == CalculateCosts \/ QuoteAnotherPart \/ CalculateCostsAgain

SessionSpec == SessionInit /\ [][SessionNext]_vars

(***************************************************************************)
(* The command line of quote_with_visualizations.py: a single file, or a   *)
(* batch of files, quoted on an engine of its own.                         *)
(***************************************************************************)
\* STEP files: a bracket and a flange that quote, a bar longer than every
\* block, a part whose convex hull cannot be built, and a file that does not load
StepFiles ==
  { [loads |-> TRUE, part_name |-> "bracket",
     mesh |-> Mesh(<<100, 80, 20>>, <<0, 0, 0>>, 150000, 160000, FALSE, 30000, 500, 1500, FALSE)],
    [loads |-> TRUE, part_name |-> "flange",
     mesh |-> Mesh(<<300, 280, 260>>, <<0, 0, 0>>, 10920000, 21840000, FALSE,
                   600000, 2500, 7500, TRUE)],
    [loads |-> TRUE, part_name |-> "bar",
     mesh |-> Mesh(<<700, 80, 20>>, <<0, 0, 0>>, 1050000, 1120000, FALSE, 30000, 500, 1500, FALSE)],
    [loads |-> TRUE, part_name |-> "shell",
     mesh |-> Mesh(<<100, 80, 20>>, <<0, 0, 0>>, 150000, 160000, TRUE, 30000, 500, 1500, FALSE)],
    [loads |-> FALSE, part_name |-> "broken"] }

ShippingTiers == {"economy", "standard", "expedited"}

\* the files of a batch run
MaxBatchFiles == 2
BatchFiles == UNION {[1..n -> StepFiles] : n \in 1..MaxBatchFiles}

BatchInit ==
  /\ engine = CADQuotingEngine
  /\ pc = "call"
  /\ result = None
  /\ \/ /\ op = "run_quote_with_visualizations"
        /\ args \in [step_file : StepFiles, quantity : {1, MaxSmallQuantity},
                     shipping : ShippingTiers]
     \/ /\ op = "run_batch_analysis"
        /\ args \in [step_files : BatchFiles, quantity : {1, MaxSmallQuantity},
                     shipping : ShippingTiers]

RunQuoteWithVisualizations ==
  /\ pc = "call" /\ op = "run_quote_with_visualizations"
  /\ result' = Return(run_quote_with_visualizations(args.step_file, args.quantity,
                                                    args.shipping))
  /\ pc' = "return"
  /\ UNCHANGED <<engine, op, args>>

RunBatchAnalysis ==
  /\ pc = "call" /\ op = "run_batch_analysis"
  /\ result' = Return(run_batch_analysis(args.step_files, args.quantity, args.shipping))
  /\ pc' = "return"
  /\ UNCHANGED <<engine, op, args>>

BatchNext == RunQuoteWithVisualizations \/ RunBatchAnalysis

BatchSpec == BatchInit /\ [][BatchNext]_vars

(***************************************************************************)
(* Vocabulary of the properties.                                           *)
(***************************************************************************)
QuoteReturned == op = "calculate_costs" /\ pc = "return"
QuoteEnded == op = "calculate_costs" /\ pc # "call"
BlockReturned == op = "find_smallest_fitting_block" /\ pc = "return"

\* the returned QuoteResult
Quote == result.value

\* the bounding-box edges of the requested mesh, as integers
MeshDims ==
  LET b == args.mesh.bounds IN <<b[2][1] - b[1][1], b[2][2] - b[1][2], b[2][3] - b[1][3]>>

\* a triple of integers in ascending order
Sort3(t) ==
  LET lo == IMin(t[1], IMin(t[2], t[3]))
      hi == IMax(t[1], IMax(t[2], t[3]))
  IN  <<lo, t[1] + t[2] + t[3] - lo - hi, hi>>

\* the part, turned as needed, lies inside the block
FitsInside(dims, block) == \A i \in 1..3 : Sort3(dims)[i] <= Sort3(block)[i]

CatalogBlocks == {BlockSizes[i] : i \in 1..Len(BlockSizes)}
FittingSet(dims) == {b \in CatalogBlocks : FitsInside(dims, b)}
IntVolume(b) == b[1] * b[2] * b[3]
Waste(dims, b) == WasteRatio(RSeq(dims), b)
InBand(dims, b) == RLe(Frac(2, 10), Waste(dims, b)) /\ RLe(Waste(dims, b), Frac(6, 10))
WithinWaste(dims, b) == RLe(Waste(dims, b), Frac(7, 10))
BandSet(dims) == {b \in FittingSet(dims) : InBand(dims, b)}
WithinSet(dims) == {b \in FittingSet(dims) : WithinWaste(dims, b)}
DistanceFrom30(dims, b) == RAbs(RSub(Waste(dims, b), Frac(3, 10)))
\* (|waste - 0.3|, volume) of a is below that of b
BetterWaste(dims, a, b) ==
  \/ RLt(DistanceFrom30(dims, a), DistanceFrom30(dims, b))
  \/ REq(DistanceFrom30(dims, a), DistanceFrom30(dims, b)) /\ IntVolume(a) < IntVolume(b)

RecognizedTiers == {"5_days", "4_days", "3_days"}
TierMultiplier(t) ==
  IF t = "5_days" THEN Frac(13, 10) ELSE IF t = "4_days" THEN Frac(16, 10) ELSE R(2)

\* the composite cost of the returned quote, from its reported parts
ReportedComposite ==
  RMul(RAdd(RAdd(Quote.machine_time_cost, Quote.material_cost),
            Quote.breakdown.total_labor_cost),
       Quote.breakdown.quantity_multiplier)

(***************************************************************************)
(* C1: every returned quote for a quantity q >= 1, whatever the expedite   *)
(* argument, has per_unit_cost >= 200.                                     *)
(***************************************************************************)
C1_PriceFloor ==
  (QuoteReturned /\ args.quantity >= 1) => RLe(R(200), Quote.per_unit_cost)

\* a bulk, expedited quote whose composite cost is below the floor
C1_Witness ==
  /\ QuoteReturned /\ args.quantity > 1 /\ args.expedited \in RecognizedTiers
  /\ RLt(ReportedComposite, R(200))

(***************************************************************************)
(* C2: in every returned quote for q >= 1, total_cost is the final         *)
(* per_unit_cost (after floor and expedite multiplier) times q.            *)
(***************************************************************************)
C2_TotalIsUnitTimesQuantity ==
  (QuoteReturned /\ args.quantity >= 1) =>
     REq(Quote.total_cost, RMul(Quote.per_unit_cost, R(args.quantity)))

\* an expedited quote for several parts whose price was lifted to the floor
C2_Witness ==
  /\ QuoteReturned /\ args.quantity > 1 /\ args.expedited = "3_days"
  /\ RLt(ReportedComposite, R(200))
  /\ REq(Quote.per_unit_cost, R(400))

(***************************************************************************)
(* C3: with no recognized tier, per_unit_cost is the larger of 200 and     *)
(* (machine_time_cost + material_cost + total_labor_cost) times the        *)
(* quantity multiplier, machine_time_cost being the reported one (after    *)
(* both multipliers) and total_labor_cost what calculate_labor_costs gives *)
(* for that quantity.                                                      *)
(***************************************************************************)
C3_PerUnitFormula ==
  (QuoteReturned /\ args.expedited \notin RecognizedTiers) =>
     LET labor == calculate_labor_costs(engine, args.mesh, Quote.complexity_score,
                                        args.quantity).total_labor_cost
         composite == RMul(RAdd(RAdd(Quote.machine_time_cost, Quote.material_cost), labor),
                           get_quantity_multiplier(engine, args.quantity))
     IN  REq(Quote.per_unit_cost, RMax(R(200), composite))

\* an unexpedited bulk quote priced above the floor
C3_Witness ==
  /\ QuoteReturned /\ args.expedited \notin RecognizedTiers /\ args.quantity > 1
  /\ RLt(R(200), Quote.per_unit_cost)

(***************************************************************************)
(* C4: a quote with tier 5_days, 4_days or 3_days has per_unit_cost equal  *)
(* to 1.3, 1.6 or 2.0 times the per_unit_cost of the same mesh and         *)
(* quantity without a tier, hence at least 200 times that multiplier.      *)
(***************************************************************************)
C4_ExpediteAfterFloor ==
  (QuoteReturned /\ args.expedited \in RecognizedTiers) =>
     LET plain == calculate_costs(engine, args.mesh, args.quantity, None).value
         m == TierMultiplier(args.expedited)
     IN  /\ REq(Quote.per_unit_cost, RMul(plain.per_unit_cost, m))
         /\ RLe(RMul(R(200), m), Quote.per_unit_cost)

\* a 4-day quote whose unexpedited price is the floor: 200 * 1.6 = 320
C4_Witness ==
  /\ QuoteReturned /\ args.expedited = "4_days"
  /\ RLt(ReportedComposite, R(200))
  /\ REq(Quote.per_unit_cost, R(320))

(***************************************************************************)
(* C5: lead_time_days is 5, 4 or 3 under tier 5_days, 4_days or 3_days     *)
(* whatever the score; otherwise 7 if score < 5, 10 if 5 <= score < 8 and  *)
(* 11 if score >= 8.  It is a function of the tier and the score alone.    *)
(***************************************************************************)
C5_LeadTime ==
  QuoteReturned =>
     Quote.lead_time_days =
       IF args.expedited = "5_days" THEN 5
       ELSE IF args.expedited = "4_days" THEN 4
       ELSE IF args.expedited = "3_days" THEN 3
       ELSE IF RLt(Quote.complexity_score, R(5)) THEN 7
       ELSE IF RLt(Quote.complexity_score, R(8)) THEN 10
       ELSE 11

\* a bulk order of the most complex part in a large block, pinned to 3 days
C5_Witness ==
  /\ QuoteReturned /\ args.expedited = "3_days" /\ args.quantity > 1
  /\ REq(Quote.complexity_score, R(8))
  /\ Quote.lead_time_days = 3

(***************************************************************************)
(* C6: a block returned by find_smallest_fitting_block contains the part:  *)
(* the sorted dimensions are elementwise <= the sorted block, for every    *)
(* triple in every order (also for the block calculate_costs reports).     *)
(***************************************************************************)
C6_BlockContainsPart ==
  /\ (BlockReturned /\ result.value # NoBlock) => FitsInside(args.dimensions, result.value)
  /\ QuoteReturned => FitsInside(MeshDims, Quote.breakdown.block_size)

\* dimensions given in descending order, a block that is no cube
C6_Witness ==
  /\ BlockReturned /\ result.value # NoBlock
  /\ args.dimensions[1] > args.dimensions[2] /\ args.dimensions[2] > args.dimensions[3]
  /\ result.value[1] > result.value[3]

(***************************************************************************)
(* C7: when some block fits, the selected block is the one minimizing      *)
(* (|waste - 0.3|, volume) among the fitting blocks with waste in          *)
(* [0.2, 0.6] if there is one, and otherwise the smallest-volume block     *)
(* among all fitting blocks.                                               *)
(***************************************************************************)
C7_SelectionRule ==
  (BlockReturned /\ FittingSet(args.dimensions) # {}) =>
     LET dims == args.dimensions
         sel == result.value
     IN  IF BandSet(dims) # {}
         THEN /\ sel \in BandSet(dims)
              /\ \A b \in BandSet(dims) \ {sel} : BetterWaste(dims, sel, b)
         ELSE /\ sel \in FittingSet(dims)
              /\ \A b \in FittingSet(dims) \ {sel} : IntVolume(sel) < IntVolume(b)

\* the chosen block is in the band although a smaller block in the band fits
C7_Witness ==
  /\ BlockReturned /\ result.value \in BandSet(args.dimensions)
  /\ \E b \in BandSet(args.dimensions) : IntVolume(b) < IntVolume(result.value)

PartTooLargeRaised ==
  /\ pc = "raise" /\ result.exception = "ValueError"
  /\ result.message = "Part is too large for available block sizes"

C9_TooLargeIffNoBlock ==
  QuoteEnded =>
     /\ PartTooLargeRaised <=> FittingSet(MeshDims) = {}
     /\ PartTooLargeRaised <=> ~FitsInside(MeshDims, <<500, 500, 600>>)

\* the same equivalence for the meshes whose convex hull query answers
C9_TooLargeIffNoBlockWhenHullAnswers ==
  (QuoteEnded /\ ~args.mesh.convex_hull.raises) =>
     /\ PartTooLargeRaised <=> FittingSet(MeshDims) = {}
     /\ PartTooLargeRaised <=> ~FitsInside(MeshDims, <<500, 500, 600>>)

(***************************************************************************)
(* C10: part-too-large is the only failure of calculate_costs: for every   *)
(* mesh whose bounding box fits a catalog block, degenerate meshes         *)
(* included, it returns a QuoteResult.                                     *)
(***************************************************************************)
C10_OnlyTooLargeFails ==
  QuoteEnded =>
     /\ pc = "raise" => PartTooLargeRaised
     /\ FittingSet(MeshDims) # {} => pc = "return"

(***************************************************************************)
(* C11: an expedite argument other than 5_days, 4_days and 3_days never    *)
(* makes calculate_costs fail where the request without a tier succeeds,   *)
(* and the quote has the per_unit_cost, total_cost, expedited_multiplier   *)
(* (1.0) and lead_time_days of the request without a tier.                 *)
(***************************************************************************)
C11_UnrecognizedTierIsNoTier ==
  (QuoteEnded /\ args.expedited \notin RecognizedTiers) =>
     LET plain == calculate_costs(engine, args.mesh, args.quantity, None)
     IN  /\ result.kind = plain.kind
         /\ pc = "raise" => result = plain
         /\ pc = "return" =>
              /\ Quote.per_unit_cost = plain.value.per_unit_cost
              /\ Quote.total_cost = plain.value.total_cost
              /\ Quote.lead_time_days = plain.value.lead_time_days
              /\ Quote.expedited_multiplier = plain.value.expedited_multiplier
              /\ REq(Quote.expedited_multiplier, R(1))

\* a quote for the unknown tier 2_days, priced above the floor
C11_Witness ==
  /\ QuoteReturned /\ args.expedited = "2_days" /\ args.quantity > 1
  /\ RLt(R(200), Quote.per_unit_cost)

(***************************************************************************)
(* C12: get_quantity_multiplier returns 1.0 for q <= 1, the tabulated      *)
(* multiplier at every control point (1.0, 0.95, 0.92, 0.90, 0.88, 0.85,   *)
(* 0.82, 0.80, 0.78, 0.75, 0.72, a non-increasing sequence), the linear    *)
(* interpolation by fractional position strictly between two adjacent      *)
(* control points, and 0.72 for every q >= 5000.                           *)
(***************************************************************************)
MultiplierReturned == op = "get_quantity_multiplier" /\ pc = "return"

\* <<quantity, multiplier in hundredths>> of the control points
ControlPoints ==
  << <<1, 100>>, <<2, 95>>, <<3, 92>>, <<4, 90>>, <<5, 88>>, <<10, 85>>,
     <<15, 82>>, <<20, 80>>, <<25, 78>>, <<50, 75>>, <<100, 72>> >>

ControlMultiplier(i) == Frac(ControlPoints[i][2], 100)

\* the value on the line through control points i and i + 1 at quantity q
Interpolated(i, q) ==
  RAdd(ControlMultiplier(i),
       RMul(RSub(ControlMultiplier(i + 1), ControlMultiplier(i)),
            Frac(q - ControlPoints[i][1], ControlPoints[i + 1][1] - ControlPoints[i][1])))

C12_QuantityMultiplierTable ==
  MultiplierReturned =>
     LET q == args.quantity
         m == result.value
     IN  /\ q <= 1 => REq(m, R(1))
         /\ \A i \in 1..Len(ControlPoints) :
              q = ControlPoints[i][1] => REq(m, ControlMultiplier(i))
         /\ \A i \in 1..(Len(ControlPoints) - 1) :
              /\ (ControlPoints[i][1] < q /\ q < ControlPoints[i + 1][1])
                   => REq(m, Interpolated(i, q))
              /\ ControlPoints[i + 1][2] <= ControlPoints[i][2]
         /\ q >= 5000 => REq(m, Frac(72, 100))

\* 37 parts, strictly between the control points 25 and 50: 0.78 - 0.03 * 12 / 25
C12_Witness ==
  /\ MultiplierReturned /\ args.quantity = 37
  /\ REq(result.value, Frac(7656, 10000))

C14_FailureCarriesContext ==
  (QuoteEnded /\ pc = "raise" /\ result.exception = "ValueError") =>
     /\ "dimensions" \in DOMAIN result
     /\ result.dimensions = MeshDims
     /\ "largest_block" \in DOMAIN result
     /\ result.largest_block = <<600, 500, 500>>

(***************************************************************************)
(* C15: material_cost = part_volume / 1000 * 2.7 / 1000 * 5 with           *)
(* part_volume in mm^3, whatever the block, the quantity, the complexity   *)
(* and the expedite tier; for part_volume = 150000 mm^3 it is 2.025.       *)
(***************************************************************************)
C15_MaterialCost ==
  QuoteReturned =>
     LET part_volume == R(Abs(args.mesh.volume))
     IN  /\ REq(Quote.material_cost,
                RMul(RDiv(RMul(RDiv(part_volume, R(1000)), Frac(27, 10)), R(1000)), R(5)))
         /\ REq(Quote.breakdown.material_cost, Quote.material_cost)
         /\ Abs(args.mesh.volume) = 150000 => REq(Quote.material_cost, Frac(2025, 1000))

\* an expedited bulk quote of a complex 150000 mm^3 part: 2.025
C15_Witness ==
  /\ QuoteReturned /\ Abs(args.mesh.volume) = 150000
  /\ args.quantity > 1 /\ args.expedited = "3_days"
  /\ RLe(R(5), Quote.complexity_score)
  /\ REq(Quote.material_cost, Frac(2025, 1000))

(***************************************************************************)
(* C16: the size multiplier applied to machine_time_cost follows the       *)
(* longest bounding-box edge: 1.15 below 50 mm, 0.9 from 200 mm on, 1.0    *)
(* otherwise (so that permuting the axes of the part leaves the quote      *)
(* unchanged).                                                             *)
(***************************************************************************)
C16_SizeMultiplierOfLongestEdge ==
  QuoteReturned =>
     LET longest == Sort3(MeshDims)[3]
     IN  REq(Quote.breakdown.size_multiplier,
             IF longest < 50 THEN Frac(115, 100)
             ELSE IF longest >= 200 THEN Frac(9, 10)
             ELSE R(1))

\* the feature estimator has answered
FeaturesReturned == pc = "return" /\ op = "detect_features"

Features == result.value

\* a geometric query of detect_features fails on the mesh: the convex hull
\* cannot be built, or the part volume is divided by a hull volume of 0.0
HullQueryFails(mesh) ==
  \/ mesh.convex_hull.raises
  \/ (mesh.convex_hull.volume = 0 /\ ~mesh.numpy_floats)

(***************************************************************************)
(* C17: when a geometric query of detect_features fails (the convex hull,  *)
(* after the hole count was computed), the returned counts are all zero:   *)
(* holes = cavities = sharp_edges = pockets = 0 and feature_score = 0.     *)
(***************************************************************************)
C17_FailureGivesZeroCounts ==
  (FeaturesReturned /\ HullQueryFails(args.mesh)) =>
     /\ Features.holes = 0 /\ Features.cavities = 0
     /\ Features.sharp_edges = 0 /\ Features.pockets = 0
     /\ REq(Features.feature_score, R(0))

\* round() of a non-negative number: the nearest integer, the even one of
\* the two when the number lies halfway
Round(x) ==
  LET below == RTrunc(x)
      rest == RSub(x, R(below))
  IN  IF RLt(rest, Frac(1, 2)) THEN below
      ELSE IF RLt(Frac(1, 2), rest) THEN below + 1
      ELSE IF below % 2 = 0 THEN below ELSE below + 1

Clamp(v, lo, hi) == IMax(lo, IMin(hi, v))

\* a / b, and 0 when b is 0
RatioOrZero(a, b) == IF b = 0 THEN R(0) ELSE Frac(a, b)

ReferenceHoles(mesh) ==
  LET r == RatioOrZero(mesh.area, Abs(mesh.volume))
  IN  IF RLt(Frac(15, 100), r) THEN Clamp(Round(RMul(r, R(5))), 1, 5) ELSE 0

ReferenceCavities(mesh) ==
  LET c == RSub(R(1), RatioOrZero(Abs(mesh.volume), Abs(mesh.convex_hull.volume)))
  IN  IF mesh.convex_hull.volume # 0 /\ RLt(Frac(2, 10), c)
      THEN Clamp(Round(RMul(c, R(3))), 1, 3)
      ELSE 0

ReferenceSharpEdges(mesh) ==
  LET e == RatioOrZero(mesh.edges, mesh.faces)
  IN  IF RLt(R(3), e) THEN Clamp(Round(RMul(e, Frac(15, 10))), 1, 4) ELSE 0

ReferencePockets(mesh) ==
  IF mesh.faces > 2000 THEN Clamp(Round(Frac(mesh.faces, 1000)), 1, 8)
  ELSE IF mesh.faces > 1000 THEN Clamp(Round(Frac(mesh.faces, 800)), 1, 4)
  ELSE 0

(***************************************************************************)
(* C18: on a mesh where no geometric query fails, detect_features returns  *)
(* the counts of the reference formulas, which round the scaled ratios:    *)
(* holes = clamp(round(r * 5), 1, 5) when r = area / volume > 0.15,        *)
(* cavities = clamp(round(c * 3), 1, 3) when c = 1 - volume / hull volume  *)
(* > 0.2, sharp_edges = clamp(round(e * 1.5), 1, 4) when e = edges / faces *)
(* > 3, pockets = clamp(round(faces / 1000), 1, 8) above 2000 faces and    *)
(* clamp(round(faces / 800), 1, 4) above 1000 faces, each 0 otherwise; a   *)
(* ratio with a zero denominator contributes 0.                            *)
(***************************************************************************)
C18_CountsFollowRoundedFormulas ==
  (FeaturesReturned /\ ~HullQueryFails(args.mesh)) =>
     /\ Features.holes = ReferenceHoles(args.mesh)
     /\ Features.cavities = ReferenceCavities(args.mesh)
     /\ Features.sharp_edges = ReferenceSharpEdges(args.mesh)
     /\ Features.pockets = ReferencePockets(args.mesh)

(***************************************************************************)
(* C19: every result of detect_features, on the success path and on the    *)
(* failure path, has integer counts within their caps, 0 <= holes <= 5,    *)
(* 0 <= cavities <= 3, 0 <= sharp_edges <= 4, 0 <= pockets <= 8, and a     *)
(* feature_score that is not negative.                                     *)
(***************************************************************************)
C19_CountsWithinCaps ==
  FeaturesReturned =>
     /\ Features.holes \in 0..5
     /\ Features.cavities \in 0..3
     /\ Features.sharp_edges \in 0..4
     /\ Features.pockets \in 0..8
     /\ RLe(R(0), Features.feature_score)

\* a dense mesh with a large surface: 9.5 pockets per 1000 faces are capped
\* at 8, and the hole count at 5
C19_Witness ==
  /\ FeaturesReturned /\ ~HullQueryFails(args.mesh)
  /\ args.mesh.faces > 8999
  /\ Features.pockets = 8 /\ Features.holes = 5
  /\ RLt(R(0), Features.feature_score)

\* the complexity score has been computed
ComplexityReturned == pc = "return" /\ op = "calculate_complexity_score"

\* the four capped components of the score, before the cap of their sum
ComplexityComponents(mesh) ==
  LET r == RatioOrZero(mesh.area, mesh.volume)
      feature_score == detect_features(engine, mesh).feature_score
  IN  << RMin(RMul(r, Frac(15, 100)), R(3)),
         RMin(RMul(Frac(mesh.faces, 1000), R(2)), R(4)),
         RMin(RMul(Frac(mesh.edges, 1000), R(2)), R(3)),
         RMin(RMul(feature_score, Frac(3, 10)), R(2)) >>

ComplexitySum(mesh) ==
  LET c == ComplexityComponents(mesh)
  IN  RAdd(RAdd(c[1], c[2]), RAdd(c[3], c[4]))

(***************************************************************************)
(* C20: calculate_complexity_score returns                                 *)
(*   min(8, min(r * 0.15, 3) + min(faces / 1000 * 2, 4)                    *)
(*          + min(edges / 1000 * 2, 3) + min(feature_score * 0.3, 2))      *)
(* with r = area / volume (0 when the volume is 0) and feature_score from  *)
(* detect_features, for every mesh with non-negative inputs; the score     *)
(* lies in [0, 8].                                                         *)
(***************************************************************************)
C20_ComplexityScore ==
  ComplexityReturned =>
     /\ RLe(R(0), result.value) /\ RLe(result.value, R(8))
     /\ args.mesh.volume >= 0 =>
           REq(result.value, RMin(R(8), ComplexitySum(args.mesh)))

\* a dense mesh with a large surface: the components add up to more than 8
\* and the score is capped
C20_Witness ==
  /\ ComplexityReturned /\ args.mesh.volume > 0
  /\ RLt(R(8), ComplexitySum(args.mesh))
  /\ RLt(R(0), ComplexityComponents(args.mesh)[4])
  /\ REq(result.value, R(8))

\* get_complexity_category has answered
CategoryReturned == pc = "return" /\ op = "get_complexity_category"

\* the multiplier the calibration table gives a category
CategoryMultiplier(category) ==
  IF category = "low" THEN Frac(85, 100)
  ELSE IF category = "medium" THEN R(1)
  ELSE Frac(135, 100)

\* the category of a score by the boundaries 4.0 and 6.0
CategoryOfScore(score) ==
  IF RLt(score, R(4)) THEN "low"
  ELSE IF RLe(R(4), score) /\ RLt(score, R(6)) THEN "medium"
  ELSE "high"

(***************************************************************************)
(* C21: the complexity category is low exactly when score < 4.0, medium    *)
(* exactly when 4.0 <= score < 6.0 and high exactly when score >= 6.0, and *)
(* the complexity multiplier of a quote is 0.85, 1.0 or 1.35 for a low,    *)
(* medium or high score.                                                   *)
(***************************************************************************)
C21_ComplexityCategory ==
  /\ CategoryReturned =>
        /\ (result.value = "low") <=> RLt(args.score, R(4))
        /\ (result.value = "medium") <=> (RLe(R(4), args.score) /\ RLt(args.score, R(6)))
        /\ (result.value = "high") <=> RLe(R(6), args.score)
  /\ QuoteReturned =>
        REq(Quote.breakdown.complexity_multiplier,
            CategoryMultiplier(CategoryOfScore(Quote.complexity_score)))

\* a quote of a part scoring between 4.0 and 6.0 for which milling is charged
C21_Witness ==
  /\ QuoteReturned
  /\ RLe(R(4), Quote.complexity_score) /\ RLt(Quote.complexity_score, R(6))
  /\ REq(Quote.breakdown.complexity_multiplier, R(1))
  /\ RLt(R(0), Quote.machine_time_cost)

\* the volumes a quote is computed from: the block chosen, the convex hull
\* and the part
QuotedBlockVolume == R(IntVolume(Quote.breakdown.block_size))
QuotedHullVolume == R(Abs(args.mesh.convex_hull.volume))
QuotedPartVolume == R(Abs(args.mesh.volume))

\* 0.8 * hull_volume
ShrinkWrapVolume == RMul(QuotedHullVolume, Frac(8, 10))

(***************************************************************************)
(* C22: in every QuoteResult the phase volumes are                         *)
(*   coarse = max(0, block_volume - hull_volume),                          *)
(*   medium = max(0, hull_volume - 0.8 * hull_volume),                     *)
(*   fine   = max(0, 0.8 * hull_volume - part_volume),                     *)
(* each >= 0, and machine_time_cost = (coarse * 0.00011 + medium * 0.00039 *)
(* + fine * 0.00175) * complexity_multiplier * size_multiplier.            *)
(***************************************************************************)
C22_PhaseVolumesAndMachineCost ==
  QuoteReturned =>
     LET b == Quote.breakdown
     IN  /\ REq(b.coarse_volume, RMax(R(0), RSub(QuotedBlockVolume, QuotedHullVolume)))
         /\ REq(b.medium_volume, RMax(R(0), RSub(QuotedHullVolume, ShrinkWrapVolume)))
         /\ REq(b.fine_volume, RMax(R(0), RSub(ShrinkWrapVolume, QuotedPartVolume)))
         /\ RLe(R(0), b.coarse_volume) /\ RLe(R(0), b.medium_volume)
         /\ RLe(R(0), b.fine_volume)
         /\ REq(Quote.machine_time_cost,
                RMul(RMul(RAdd(RAdd(RMul(b.coarse_volume, Frac(11, 100000)),
                                    RMul(b.medium_volume, Frac(39, 100000))),
                               RMul(b.fine_volume, Frac(175, 100000))),
                          b.complexity_multiplier),
                     b.size_multiplier))

\* a part filling more than 80% of its hull: the fine volume is clamped at 0,
\* coarse and medium milling are charged, and both multipliers differ from 1
C22_Witness ==
  /\ QuoteReturned
  /\ RLt(ShrinkWrapVolume, QuotedPartVolume)
  /\ REq(Quote.breakdown.fine_volume, R(0))
  /\ RLt(R(0), Quote.breakdown.coarse_volume)
  /\ RLt(R(0), Quote.breakdown.medium_volume)
  /\ ~REq(Quote.breakdown.complexity_multiplier, R(1))
  /\ ~REq(Quote.breakdown.size_multiplier, R(1))
  /\ RLt(R(0), Quote.machine_time_cost)

\* the dictionary calculate_labor_costs returned for the quote
Labor == Quote.breakdown.labor_costs

\* the categories charged once per job, and those charged per unit
SetupLabor(l) ==
  RAdd(RAdd(l.cad_cam_programming, l.machine_setup), RAdd(l.tool_setup, l.project_management))
PerUnitLabor(l) == RAdd(l.quality_inspection, l.deburring_finishing)

SameCategoryCosts(l, k) ==
  /\ REq(l.cad_cam_programming, k.cad_cam_programming)
  /\ REq(l.machine_setup, k.machine_setup)
  /\ REq(l.tool_setup, k.tool_setup)
  /\ REq(l.quality_inspection, k.quality_inspection)
  /\ REq(l.deburring_finishing, k.deburring_finishing)
  /\ REq(l.project_management, k.project_management)

(***************************************************************************)
(* C23: calculate_labor_costs: for quantity 1 total_labor_cost is the sum  *)
(* of the six category costs; for a quantity q > 1 it is programming +     *)
(* machine setup + tool setup + project management, each charged once,     *)
(* plus (quality inspection + deburring/finishing) * q; the six category   *)
(* costs do not depend on q.                                               *)
(***************************************************************************)
C23_LaborTotal ==
  QuoteReturned =>
     /\ args.quantity = 1 =>
           REq(Labor.total_labor_cost, RAdd(SetupLabor(Labor), PerUnitLabor(Labor)))
     /\ args.quantity > 1 =>
           REq(Labor.total_labor_cost,
               RAdd(SetupLabor(Labor), RMul(PerUnitLabor(Labor), R(args.quantity))))
     /\ REq(Quote.breakdown.total_labor_cost, Labor.total_labor_cost)
     /\ \A q \in Quantities :
           SameCategoryCosts(Labor,
             calculate_labor_costs(engine, args.mesh, Quote.complexity_score, q))

\* a quote for several units: the per-unit categories are charged 7 times
C23_Witness ==
  /\ QuoteReturned /\ args.quantity = 7
  /\ RLt(R(0), PerUnitLabor(Labor))
  /\ RLt(RAdd(SetupLabor(Labor), PerUnitLabor(Labor)), Labor.total_labor_cost)

\* the hours behind a category cost: the cost divided by the hourly rate
QualityInspectionHours == RDiv(Labor.quality_inspection, engine.labor_rates["quality_inspection"])
DeburringFinishingHours ==
  RDiv(Labor.deburring_finishing, engine.labor_rates["deburring_finishing"])

(***************************************************************************)
(* C24: for every surface area and every complexity score (complexity      *)
(* factor 0.8, 1.0 or 1.4) the quality-inspection hours and the            *)
(* deburring/finishing hours used for costing are at least 0.1 h each.     *)
(***************************************************************************)
C24_HoursFlooredAtTenth ==
  QuoteReturned =>
     /\ RLe(Frac(1, 10), QualityInspectionHours)
     /\ RLe(Frac(1, 10), DeburringFinishingHours)

(***************************************************************************)
(* C25: get_quantity_multiplier is non-increasing over all integer         *)
(* quantities q >= 1: q1 <= q2 implies multiplier(q1) >= multiplier(q2);   *)
(* in particular for 100 < q < 5000 the multiplier is no larger than that  *)
(* of q = 100.                                                             *)
(***************************************************************************)
C25_MultiplierNonIncreasing ==
  (MultiplierReturned /\ args.quantity >= 1) =>
     /\ \A q1 \in MultiplierQuantities :
           (1 <= q1 /\ q1 <= args.quantity) =>
              RLe(result.value, get_quantity_multiplier(engine, q1))
     /\ (100 < args.quantity /\ args.quantity < 5000) =>
           RLe(result.value, get_quantity_multiplier(engine, 100))

\* per_unit_cost of the quoted mesh and expedite argument at another quantity
PerUnitCostAt(q) ==
  calculate_costs(engine, args.mesh, q, args.expedited).value.per_unit_cost

(***************************************************************************)
(* C26: for a fixed mesh and expedite argument, per_unit_cost does not     *)
(* increase as the quantity increases over 1..100: q1 <= q2 implies        *)
(* per_unit_cost(q1) >= per_unit_cost(q2).                                 *)
(***************************************************************************)
C26_UnitPriceNonIncreasing ==
  (QuoteReturned /\ args.quantity <= 100) =>
     \A q1 \in Quantities :
        q1 <= args.quantity => RLe(Quote.per_unit_cost, PerUnitCostAt(q1))

(***************************************************************************)
(* C27: the three milling phases split the total removable volume: in      *)
(* every QuoteResult coarse_volume + medium_volume + fine_volume =         *)
(* block_volume - part_volume, for every mesh with part_volume <=          *)
(* convex_hull_volume <= block_volume.                                     *)
(***************************************************************************)
C27_PhasesSplitRemovableVolume ==
  (/\ QuoteReturned
   /\ RLe(QuotedPartVolume, QuotedHullVolume)
   /\ RLe(QuotedHullVolume, QuotedBlockVolume)) =>
     REq(RAdd(RAdd(Quote.breakdown.coarse_volume, Quote.breakdown.medium_volume),
              Quote.breakdown.fine_volume),
         RSub(QuotedBlockVolume, QuotedPartVolume))

\* the quote shows a tier applied: a tier multiplier and the lead time pinned
\* to the days of that tier
TierApplied ==
  \E t \in RecognizedTiers :
     /\ REq(Quote.expedited_multiplier, TierMultiplier(t))
     /\ Quote.lead_time_days = engine.expedited_options[t].max_days

(***************************************************************************)
(* C28: in every QuoteResult the expedited flag is true if and only if a   *)
(* recognized tier was applied: exactly when expedited_multiplier is 1.3,  *)
(* 1.6 or 2.0 and lead_time_days is pinned to 5, 4 or 3; for no tier, the  *)
(* empty string or an unrecognized string the flag is false.               *)
(***************************************************************************)
C28_FlagIffTierApplied ==
  QuoteReturned =>
     /\ Quote.expedited <=> args.expedited \in RecognizedTiers
     /\ Quote.expedited <=> TierApplied

\* the edge-to-face ratio of the mesh exceeds 3.0
ManyEdges(mesh) == RLt(R(3), RatioOrZero(mesh.edges, mesh.faces))

(***************************************************************************)
(* C29: the sharp_edges count returned by detect_features is always either *)
(* 0 or 4: whenever the edge-to-face ratio exceeds 3.0 the count is 4, so  *)
(* the values 1, 2 and 3 are unreachable for every mesh.                   *)
(***************************************************************************)
C29_SharpEdgesFourAboveThree ==
  FeaturesReturned =>
     /\ Features.sharp_edges \in {0, 4}
     /\ ManyEdges(args.mesh) => Features.sharp_edges = 4

(***************************************************************************)
(* C29, amended: the sharp_edges count returned by detect_features is      *)
(* always either 0 or 4: it is 4 when the edge-to-face ratio exceeds 3.0   *)
(* and no step before it failed (the convex hull query, the division by a  *)
(* hull volume of 0.0), and 0 otherwise; the values 1, 2 and 3 are         *)
(* unreachable for every mesh.                                             *)
(***************************************************************************)
C29_SharpEdgesZeroOrFour ==
  FeaturesReturned =>
     /\ Features.sharp_edges \in {0, 4}
     /\ (ManyEdges(args.mesh) /\ ~HullQueryFails(args.mesh)) => Features.sharp_edges = 4
     /\ (~ManyEdges(args.mesh) \/ HullQueryFails(args.mesh)) => Features.sharp_edges = 0

\* 1600 edges on 500 faces: a ratio of 3.2, scaled to 4.8, counts 4
C29_Witness ==
  /\ FeaturesReturned /\ ~HullQueryFails(args.mesh)
  /\ args.mesh.faces = 500 /\ args.mesh.edges = 1600
  /\ Features.sharp_edges = 4

\* run_quote_with_visualizations / run_batch_analysis have answered
RunQuoteReturned == pc = "return" /\ op = "run_quote_with_visualizations"
BatchReturned == pc = "return" /\ op = "run_batch_analysis"

\* the file loads and CADQuotingEngine.calculate_costs succeeds for its mesh
\* and the quantity
Quotable(step_file, quantity) ==
  /\ step_file.loads
  /\ calculate_costs(CADQuotingEngine, step_file.mesh, quantity, None).kind = "return"

(***************************************************************************)
(* C30: run_quote_with_visualizations returns the quote data (not None)    *)
(* whenever the mesh loads and CADQuotingEngine.calculate_costs would      *)
(* succeed for that mesh and quantity; consequently run_batch_analysis     *)
(* collects one quote per such file.                                       *)
(***************************************************************************)
C30_QuoteDataWhenQuotable ==
  /\ (RunQuoteReturned /\ Quotable(args.step_file, args.quantity)) =>
        /\ result.value # NoQuoteData
        /\ result.value.part_name = args.step_file.part_name
  /\ BatchReturned =>
        Len(result.value) =
          Cardinality({i \in DOMAIN args.step_files :
                         Quotable(args.step_files[i], args.quantity)})

=============================================================================
